---- MODULE Spec2Model ----
(***************************************************************************)
(* Model of internal/google-vision/main.py: a linear script that resolves  *)
(* a credential path next to the script, exports it through os.environ,    *)
(* constructs an ImageAnnotatorClient, issues one text_detection call for  *)
(* a fixed image URL and prints the first annotation.                      *)
(*                                                                         *)
(* Path strings are sequences of tokens: the separator "/" or a name that  *)
(* contains no separator.  A directory on disk is the sequence of its      *)
(* component names (<<>> is the root directory).                           *)
(*                                                                         *)
(* The vision SDK and the remote service are the environment: a call into  *)
(* them either returns or raises, and which of the two happens is chosen   *)
(* nondeterministically wherever the script's own code does not decide it. *)
(***************************************************************************)
EXTENDS Integers, Sequences, FiniteSets

VARIABLES
    run,            \* number of the current invocation of the script (1..)
    pc,             \* position of the interpreter in main.py
    cwd,            \* working directory of the process (component names)
    scriptDir,      \* directory that holds main.py on disk (component names)
    file,           \* __file__ as the interpreter sets it (token string)
    keyFileExists,  \* whether vision-api.json exists next to the script
    environ,        \* os.environ restricted to the credential variable
    envWrites,      \* number of assignments to os.environ in this process
    CRED_PATH,      \* module global CRED_PATH (<<>> until line 5 ran)
    client,         \* TRUE once vision.ImageAnnotatorClient() returned
    image,          \* image.source.image_uri ("" until line 11 ran)
    requests,       \* text_detection calls issued by this invocation
    callOutcome,    \* "none" | "ok" | "auth" | "network" | "service"
    failedAt,       \* "none" | "resolve" | "construct" | "call"
    texts,          \* response.text_annotations as bound at line 14
    stdout,         \* lines written to standard output by this invocation
    exitStatus,     \* -1 while running, else the process exit status
    network,        \* requests received by the service, over all invocations
    log             \* one record per finished invocation

vars == <<run, pc, cwd, scriptDir, file, keyFileExists, environ, envWrites,
          CRED_PATH, client, image, requests, callOutcome, failedAt, texts,
          stdout, exitStatus, network, log>>

----------------------------------------------------------------------------
(* Bounds *)

MaxRuns  == 2   \* invocations of the script
MaxDepth == 1   \* depth of the directories the script and the cwd are in
MaxTexts == 2   \* annotations in one response

----------------------------------------------------------------------------
(* Literals of main.py *)

KEY_FILE  == "vision-api.json"
ENV_KEY   == "GOOGLE_APPLICATION_CREDENTIALS"
image_url == "https://images.besttemplates.com/wp-content/uploads/2024/06/Certificate8.jpg"
HEADER    == "Texts:"
SCRIPT    == "main.py"

----------------------------------------------------------------------------
(* Inputs *)

DirNames     == {"a", "b"}
Descriptions == {"HELLO WORLD", "X"}

RECURSIVE SeqsUpTo(_, _)
SeqsUpTo(S, n) ==
    IF n = 0 THEN {<<>>}
    ELSE LET shorter == SeqsUpTo(S, n - 1)
         IN  shorter \cup {Append(s, x) : s \in shorter, x \in S}

Dirs        == SeqsUpTo(DirNames, MaxDepth)
Annotations == [description : Descriptions]
Responses   == SeqsUpTo(Annotations, MaxTexts)
LaunchForms == {"absolute", "relative", "dot_relative"}
InheritedEnv == {{}, {<<ENV_KEY, <<"/", "other.json">>>>}}
CallErrors  == {"network", "service"}

----------------------------------------------------------------------------
(* posixpath as used at line 5 *)

RECURSIVE LastSep(_, _)
\* p.rfind("/") + 1 restricted to the first i tokens
LastSep(p, i) ==
    IF i = 0 THEN 0
    ELSE IF p[i] = "/" THEN i ELSE LastSep(p, i - 1)

RECURSIVE RStripSep(_)
RStripSep(p) ==
    IF p # <<>> /\ p[Len(p)] = "/" THEN RStripSep(SubSeq(p, 1, Len(p) - 1))
    ELSE p

AllSep(p) == \A i \in 1..Len(p) : p[i] = "/"

dirname(p) ==
    LET i    == LastSep(p, Len(p))
        head == SubSeq(p, 1, i)
    IN  IF head # <<>> /\ ~AllSep(head) THEN RStripSep(head) ELSE head

join(a, b) ==
    IF b # <<>> /\ b[1] = "/" THEN b
    ELSE IF a = <<>> \/ a[Len(a)] = "/" THEN a \o b
    ELSE a \o <<"/">> \o b

----------------------------------------------------------------------------
(* How the interpreter sets __file__ for the launched script *)

RECURSIVE AbsString(_)
\* the absolute path string of a directory: "/" for the root, else /x/y
AbsString(d) ==
    IF d = <<>> THEN <<"/">>
    ELSE IF Len(d) = 1 THEN <<"/", d[1]>>
    ELSE AbsString(SubSeq(d, 1, Len(d) - 1)) \o <<"/", d[Len(d)]>>

RECURSIVE CommonLen(_, _)
CommonLen(x, y) ==
    IF x # <<>> /\ y # <<>> /\ Head(x) = Head(y)
    THEN 1 + CommonLen(Tail(x), Tail(y))
    ELSE 0

RECURSIVE RelTokens(_, _)
\* n times "../" followed by the names of down, each followed by "/"
RelTokens(n, down) ==
    IF n > 0 THEN <<"..", "/">> \o RelTokens(n - 1, down)
    ELSE IF down = <<>> THEN <<>>
    ELSE <<Head(down), "/">> \o RelTokens(0, Tail(down))

\* the path of main.py as typed on the command line, relative to the cwd
RelString(from, to) ==
    LET c == CommonLen(from, to)
    IN  RelTokens(Len(from) - c, SubSeq(to, c + 1, Len(to))) \o <<SCRIPT>>

ScriptFile(form, wd, dir) ==
    CASE form = "absolute"     -> join(AbsString(dir), <<SCRIPT>>)
      [] form = "relative"     -> RelString(wd, dir)
      [] form = "dot_relative" -> <<".", "/">> \o RelString(wd, dir)

----------------------------------------------------------------------------
(* Python built-ins the script relies on *)

\* os.environ[key] = value
SetEnv(env, key, value) == {kv \in env : kv[1] # key} \cup {<<key, value>>}

\* a print that puts the new line in front of what was written before
print_front(out, line) == <<line>> \o out

\* print(line): one more line on standard output
print(out, line) == Append(out, line)

\* the bare file name, which the process would look up in its cwd
CredPath_cwd(f) == <<KEY_FILE>>

\* line 5: os.path.join(os.path.dirname(__file__), "vision-api.json")
CredPath(f) == join(dirname(f), <<KEY_FILE>>)

\* the record an ended process leaves behind
Ended(status, out, outcome) ==
    [run |-> run, status |-> status, stdout |-> out, requests |-> requests,
     callOutcome |-> outcome, texts |-> texts]

\* An exception that no handler catches: the interpreter prints the trace to
\* standard error (not modelled) and the process ends with status 1.
Uncaught(where, outcome) ==
    /\ failedAt' = where
    /\ callOutcome' = outcome
    /\ pc' = "crashed"
    /\ exitStatus' = 1
    /\ log' = Append(log, Ended(1, stdout, outcome))
    /\ UNCHANGED stdout

\* The script runs off its last line: the process ends with status 0.
Finished(out) ==
    /\ pc' = "done"
    /\ exitStatus' = 0
    /\ stdout' = out
    /\ log' = Append(log, Ended(0, out, callOutcome))

----------------------------------------------------------------------------
(* State machine *)

Init ==
    /\ run = 1
    /\ pc = "init"
    /\ cwd = <<>>
    /\ scriptDir = <<>>
    /\ file = <<>>
    /\ keyFileExists = FALSE
    /\ environ = {}
    /\ envWrites = 0
    /\ CRED_PATH = <<>>
    /\ client = FALSE
    /\ image = ""
    /\ requests = 0
    /\ callOutcome = "none"
    /\ failedAt = "none"
    /\ texts = <<>>
    /\ stdout = <<>>
    /\ exitStatus = -1
    /\ network = <<>>
    /\ log = <<>>

\* The interpreter is started on main.py: from some working directory, with
\* the script named absolutely or relative to it, with or without the key
\* file in place, and with whatever the parent process exported.
Launch ==
    /\ pc = "init"
    /\ \E wd \in Dirs, dir \in Dirs, form \in LaunchForms :
          /\ cwd' = wd
          /\ scriptDir' = dir
          /\ file' = ScriptFile(form, wd, dir)
    /\ keyFileExists' \in BOOLEAN
    /\ environ' \in InheritedEnv
    /\ pc' = "resolve"
    /\ UNCHANGED <<run, envWrites, CRED_PATH, client, image, requests,
                   callOutcome, failedAt, texts, stdout, exitStatus,
                   network, log>>

\* lines 5-6 with a check that the key file is there, raising when it is not
ResolveCredentials_checked ==
    /\ pc = "resolve"
    /\ CRED_PATH' = CredPath(file)
    /\ IF keyFileExists
       THEN /\ environ' = SetEnv(environ, ENV_KEY, CRED_PATH')
            /\ envWrites' = envWrites + 1
            /\ pc' = "construct"
            /\ UNCHANGED <<callOutcome, failedAt, stdout, exitStatus, log>>
       ELSE /\ Uncaught("resolve", callOutcome)
            /\ UNCHANGED <<environ, envWrites>>
    /\ UNCHANGED <<run, cwd, scriptDir, file, keyFileExists, client, image,
                   requests, texts, network>>

\* lines 5-6 with os.environ.setdefault in place of the assignment
ResolveCredentials_setdefault ==
    /\ pc = "resolve"
    /\ CRED_PATH' = CredPath(file)
    /\ environ' = IF \E kv \in environ : kv[1] = ENV_KEY
                  THEN environ
                  ELSE SetEnv(environ, ENV_KEY, CRED_PATH')
    /\ envWrites' = envWrites + 1
    /\ pc' = "construct"
    /\ UNCHANGED <<run, cwd, scriptDir, file, keyFileExists, client, image,
                   requests, callOutcome, failedAt, texts, stdout,
                   exitStatus, network, log>>

\* lines 5-6
ResolveCredentials ==
    /\ pc = "resolve"
    /\ CRED_PATH' = CredPath(file)
    /\ environ' = SetEnv(environ, ENV_KEY, CRED_PATH')
    /\ envWrites' = envWrites + 1
    /\ pc' = "construct"
    /\ UNCHANGED <<run, cwd, scriptDir, file, keyFileExists, client, image,
                   requests, callOutcome, failedAt, texts, stdout,
                   exitStatus, network, log>>

\* line 8: the constructor returns a client
ConstructClient ==
    /\ pc = "construct"
    /\ client' = TRUE
    /\ pc' = "image"
    /\ UNCHANGED <<run, cwd, scriptDir, file, keyFileExists, environ,
                   envWrites, CRED_PATH, image, requests, callOutcome,
                   failedAt, texts, stdout, exitStatus, network, log>>

\* line 8: the constructor raises.  The script passes no credentials, so the
\* library looks them up through the variable set at line 6; with the key file
\* absent that lookup cannot succeed, and the library may report it here.
ConstructRaises ==
    /\ pc = "construct"
    /\ ~keyFileExists
    /\ Uncaught("construct", callOutcome)
    /\ UNCHANGED <<run, cwd, scriptDir, file, keyFileExists, environ,
                   envWrites, CRED_PATH, client, image, requests, texts,
                   network>>

\* lines 9-11 followed by a clean-up that removes the credential variable
BuildImage_unsetenv ==
    /\ pc = "image"
    /\ image' = image_url
    /\ environ' = {kv \in environ : kv[1] # ENV_KEY}
    /\ pc' = "call"
    /\ UNCHANGED <<run, cwd, scriptDir, file, keyFileExists, envWrites,
                   CRED_PATH, client, requests, callOutcome, failedAt, texts,
                   stdout, exitStatus, network, log>>

\* lines 9-11
BuildImage ==
    /\ pc = "image"
    /\ image' = image_url
    /\ pc' = "call"
    /\ UNCHANGED <<run, cwd, scriptDir, file, keyFileExists, environ,
                   envWrites, CRED_PATH, client, requests, callOutcome,
                   failedAt, texts, stdout, exitStatus, network, log>>

\* line 13 with line 15 moved in front of it: the header is printed first
SendRequest_headerFirst ==
    /\ pc = "call"
    /\ stdout' = print(stdout, HEADER)
    /\ requests' = requests + 1
    /\ network' = Append(network, [run |-> run, image_uri |-> image])
    /\ pc' = "awaiting"
    /\ UNCHANGED <<run, cwd, scriptDir, file, keyFileExists, environ,
                   envWrites, CRED_PATH, client, image, callOutcome,
                   failedAt, texts, exitStatus, log>>

\* line 13 behind a cache: no request leaves when an earlier invocation
\* already got an answer
SendRequest_cached ==
    /\ pc = "call"
    /\ IF \E i \in 1..Len(log) : log[i].callOutcome = "ok"
       THEN UNCHANGED <<requests, network>>
       ELSE /\ requests' = requests + 1
            /\ network' = Append(network, [run |-> run, image_uri |-> image])
    /\ pc' = "awaiting"
    /\ UNCHANGED <<run, cwd, scriptDir, file, keyFileExists, environ,
                   envWrites, CRED_PATH, client, image, callOutcome,
                   failedAt, texts, stdout, exitStatus, log>>

\* line 13: client.text_detection(image=image) is entered, the request leaves
SendRequest ==
    /\ pc = "call"
    /\ requests' = requests + 1
    /\ network' = Append(network, [run |-> run, image_uri |-> image])
    /\ pc' = "awaiting"
    /\ UNCHANGED <<run, cwd, scriptDir, file, keyFileExists, environ,
                   envWrites, CRED_PATH, client, image, callOutcome,
                   failedAt, texts, stdout, exitStatus, log>>

\* lines 13-14: the call returns and texts is bound to the annotations
ReceiveResponse ==
    /\ pc = "awaiting"
    /\ keyFileExists
    /\ \E r \in Responses : texts' = r
    /\ callOutcome' = "ok"
    /\ pc' = "print_header"
    /\ UNCHANGED <<run, cwd, scriptDir, file, keyFileExists, environ,
                   envWrites, CRED_PATH, client, image, requests, failedAt,
                   stdout, exitStatus, network, log>>

\* line 13 inside try/except: the error is swallowed and the script goes on
CallRaises_caught ==
    /\ pc = "awaiting"
    /\ \E kind \in {"auth"} \cup CallErrors :
          /\ (~keyFileExists => kind = "auth")
          /\ callOutcome' = kind
    /\ pc' = "print_header"
    /\ UNCHANGED <<run, cwd, scriptDir, file, keyFileExists, environ,
                   envWrites, CRED_PATH, client, image, requests, failedAt,
                   texts, stdout, exitStatus, network, log>>

\* line 13: the call raises (no credentials, no network, service error)
CallRaises ==
    /\ pc = "awaiting"
    /\ \E kind \in {"auth"} \cup CallErrors :
          /\ (~keyFileExists => kind = "auth")
          /\ Uncaught("call", kind)
    /\ UNCHANGED <<run, cwd, scriptDir, file, keyFileExists, environ,
                   envWrites, CRED_PATH, client, image, requests, texts,
                   network>>

\* line 15
PrintHeader ==
    /\ pc = "print_header"
    /\ stdout' = print(stdout, HEADER)
    /\ pc' = "check"
    /\ UNCHANGED <<run, cwd, scriptDir, file, keyFileExists, environ,
                   envWrites, CRED_PATH, client, image, requests,
                   callOutcome, failedAt, texts, exitStatus, network, log>>

\* lines 17-18 printing every annotation instead of the first
PrintBody_all ==
    /\ pc = "check"
    /\ texts # <<>>
    /\ Finished(stdout \o [i \in 1..Len(texts) |-> texts[i].description])
    /\ UNCHANGED <<run, cwd, scriptDir, file, keyFileExists, environ,
                   envWrites, CRED_PATH, client, image, requests,
                   callOutcome, failedAt, texts, network>>

\* lines 17-18, texts is truthy
PrintBody ==
    /\ pc = "check"
    /\ texts # <<>>
    /\ Finished(print(stdout, texts[1].description))
    /\ UNCHANGED <<run, cwd, scriptDir, file, keyFileExists, environ,
                   envWrites, CRED_PATH, client, image, requests,
                   callOutcome, failedAt, texts, network>>

\* line 18 without the guard of line 17: texts[0] raises IndexError
SkipBody_unguarded ==
    /\ pc = "check"
    /\ texts = <<>>
    /\ Uncaught("print", callOutcome)
    /\ UNCHANGED <<run, cwd, scriptDir, file, keyFileExists, environ,
                   envWrites, CRED_PATH, client, image, requests, texts,
                   network>>

\* line 17, texts is falsy
SkipBody ==
    /\ pc = "check"
    /\ texts = <<>>
    /\ Finished(stdout)
    /\ UNCHANGED <<run, cwd, scriptDir, file, keyFileExists, environ,
                   envWrites, CRED_PATH, client, image, requests,
                   callOutcome, failedAt, texts, network>>

\* The script is invoked again: a new process, which shares nothing with the
\* ended one but the disk and the remote service.
NextInvocation ==
    /\ pc \in {"done", "crashed"}
    /\ run < MaxRuns
    /\ run' = run + 1
    /\ pc' = "init"
    /\ cwd' = <<>>
    /\ scriptDir' = <<>>
    /\ file' = <<>>
    /\ keyFileExists' = FALSE
    /\ environ' = {}
    /\ envWrites' = 0
    /\ CRED_PATH' = <<>>
    /\ client' = FALSE
    /\ image' = ""
    /\ requests' = 0
    /\ callOutcome' = "none"
    /\ failedAt' = "none"
    /\ texts' = <<>>
    /\ stdout' = <<>>
    /\ exitStatus' = -1
    /\ UNCHANGED <<network, log>>

Next ==
    \/ Launch
    \/ ResolveCredentials
    \/ ConstructClient
    \/ ConstructRaises
    \/ BuildImage
    \/ SendRequest
    \/ ReceiveResponse
    \/ CallRaises
    \/ PrintHeader
    \/ PrintBody
    \/ SkipBody
    \/ NextInvocation

Spec == Init /\ [][Next]_vars

TypeOK ==
    /\ run \in 1..MaxRuns
    /\ pc \in {"init", "resolve", "construct", "image", "call", "awaiting",
               "print_header", "check", "done", "crashed"}
    /\ keyFileExists \in BOOLEAN
    /\ client \in BOOLEAN
    /\ requests \in Nat
    /\ texts \in Responses
    /\ exitStatus \in {-1, 0, 1}
    /\ Len(log) <= MaxRuns

----------------------------------------------------------------------------
(* What a path string denotes to the operating system *)

IsAbsolute(p) == p # <<>> /\ p[1] = "/"

Components(p) == SelectSeq(p, LAMBDA t : t # "/")

RECURSIVE Normalize(_, _)
Normalize(stack, comps) ==
    IF comps = <<>> THEN stack
    ELSE LET c == Head(comps)
         IN  CASE c = "."  -> Normalize(stack, Tail(comps))
               [] c = ".." -> Normalize(IF stack = <<>> THEN stack
                                        ELSE SubSeq(stack, 1, Len(stack) - 1),
                                        Tail(comps))
               [] OTHER    -> Normalize(Append(stack, c), Tail(comps))

\* the file (directory components and name) that p names for a process in wd
ResolvePath(wd, p) ==
    Normalize(IF IsAbsolute(p) THEN <<>> ELSE wd, Components(p))

----------------------------------------------------------------------------
(* Shorthands *)

Started   == pc \notin {"init", "resolve"}
Terminated == pc \in {"done", "crashed"}
EnvSet    == environ = {<<ENV_KEY, CRED_PATH>>}
Failures  == {"auth", "network", "service"}
LogIndex  == 1..Len(log)
FullOutput(t) == <<HEADER, t[1].description>>

----------------------------------------------------------------------------
(* Claims *)

\* C1: when text_detection returned a non-empty annotation sequence, standard
\* output of the ended process is exactly the header line followed by the
\* description of the first annotation; until then it is a prefix of that.
C1_NonEmptyOutput ==
    /\ (callOutcome = "ok" /\ texts # <<>>) =>
          /\ stdout \in {<<>>, <<HEADER>>, FullOutput(texts)}
          /\ (Terminated => pc = "done" /\ stdout = FullOutput(texts))
    /\ \A i \in LogIndex :
          (log[i].callOutcome = "ok" /\ log[i].texts # <<>>) =>
              log[i].stdout = FullOutput(log[i].texts)

C1_Witness ==
    /\ pc = "done"
    /\ Len(texts) = 2
    /\ texts[1].description = "HELLO WORLD"
    /\ stdout = <<"Texts:", "HELLO WORLD">>

\* C2: when text_detection returned an empty annotation sequence, standard
\* output is exactly the header line and the process ends with status 0.
C2_EmptyOutput ==
    /\ (callOutcome = "ok" /\ texts = <<>>) =>
          /\ stdout \in {<<>>, <<HEADER>>}
          /\ pc # "crashed"
          /\ (pc = "done" => stdout = <<HEADER>> /\ exitStatus = 0)
    /\ \A i \in LogIndex :
          (log[i].callOutcome = "ok" /\ log[i].texts = <<>>) =>
              log[i].stdout = <<HEADER>> /\ log[i].status = 0

C2_Witness ==
    /\ pc = "done"
    /\ callOutcome = "ok"
    /\ texts = <<>>
    /\ stdout = <<"Texts:">>
    /\ exitStatus = 0

\* C3: nothing is on standard output unless text_detection has returned
\* successfully, and a process that failed has written nothing at all.
C3_HeaderOnlyAfterSuccess ==
    /\ stdout # <<>> => callOutcome = "ok"
    /\ pc = "crashed" => stdout = <<>>
    /\ \A i \in LogIndex : log[i].status # 0 => log[i].stdout = <<>>

C3_Witness ==
    /\ pc = "crashed"
    /\ failedAt = "call"
    /\ requests = 1
    /\ stdout = <<>>

C5_OnlyAtFirstCall ==
    (~keyFileExists /\ pc = "crashed") =>
        failedAt = "call" /\ callOutcome = "auth" /\ requests = 1

\* C5 as amended: with the key file absent, credential resolution still
\* succeeds (the path is computed and exported without looking at the file);
\* the failure surfaces after resolution, at client construction or at the
\* text-detection call.
C5_NotAtResolution ==
    (~keyFileExists /\ Started) =>
        /\ CRED_PATH = CredPath(file)
        /\ EnvSet
        /\ envWrites = 1
        /\ failedAt # "resolve"
        /\ (pc = "crashed" => failedAt \in {"construct", "call"})

C5_Witness ==
    /\ ~keyFileExists
    /\ pc = "crashed"
    /\ failedAt = "construct"
    /\ EnvSet

\* C6 as stated: every ended invocation has issued exactly one request.
C6_ExactlyOnePerInvocation ==
    /\ Terminated => requests = 1
    /\ \A i \in LogIndex : log[i].requests = 1

\* requests that invocation r put on the network
RequestsOf(r) == Cardinality({k \in 1..Len(network) : network[k].run = r})

\* C6 as amended: an invocation issues at most one request, and exactly one
\* once its client has been constructed and the call is reached, whether the
\* call succeeds or fails; each invocation that reaches the call puts its own
\* request on the network, whatever earlier invocations received.
C6_OnePerReachedCall ==
    /\ requests <= 1
    /\ RequestsOf(run) = requests
    /\ (callOutcome # "none" \/ (client /\ Terminated)) => requests = 1
    /\ \A i \in LogIndex :
          /\ log[i].requests <= 1
          /\ RequestsOf(log[i].run) = log[i].requests
          /\ log[i].callOutcome # "none" => log[i].requests = 1

C6_Witness ==
    /\ Len(log) = 2
    /\ log[1].callOutcome = "ok"
    /\ log[2].callOutcome = "ok"
    /\ log[1].texts = log[2].texts
    /\ Len(network) = 2

C8_PathNextToScript ==
    Started =>
        /\ ResolvePath(cwd, CRED_PATH) = Append(scriptDir, KEY_FILE)
        /\ \A kv \in environ :
              ResolvePath(cwd, kv[2]) = Append(scriptDir, KEY_FILE)

C8_Witness ==
    /\ Started
    /\ cwd # scriptDir
    /\ ~IsAbsolute(file)
    /\ scriptDir # <<>>
    /\ ResolvePath(cwd, CRED_PATH) = Append(scriptDir, KEY_FILE)

\* C9: the credential variable is written once; from that write until the
\* process ends it holds the resolved path and no step changes it.
C9_EnvWrittenOnce ==
    /\ [](Started => (EnvSet /\ envWrites = 1))
    /\ [][(Started /\ pc' # "init") =>
            (environ' = environ /\ envWrites' = envWrites
             /\ CRED_PATH' = CRED_PATH)]_vars

C9_Witness ==
    /\ pc = "done"
    /\ envWrites = 1
    /\ EnvSet
    /\ stdout # <<>>

\* C10: two invocations whose responses begin with the same description write
\* the same standard output, whatever the other annotations are.
C10_OnlyFirstConsumed ==
    \A i \in LogIndex, j \in LogIndex :
        ( /\ log[i].callOutcome = "ok"
          /\ log[j].callOutcome = "ok"
          /\ log[i].texts # <<>>
          /\ log[j].texts # <<>>
          /\ log[i].texts[1].description = log[j].texts[1].description )
        => log[i].stdout = log[j].stdout

C10_Witness ==
    /\ Len(log) = 2
    /\ log[1].callOutcome = "ok"
    /\ log[2].callOutcome = "ok"
    /\ Len(log[1].texts) = 1
    /\ Len(log[2].texts) = 2
    /\ log[1].texts[1].description = log[2].texts[1].description
    /\ log[2].texts[2].description # log[2].texts[1].description
    /\ log[1].stdout = log[2].stdout

====
